---- MODULE Spec2Model ----
(***************************************************************************)
(* Model of festival-map/src/App.js: the React components App,             *)
(* EventsComponent, VehicleComponent, PopupComponent and DateComponent,    *)
(* their state cells, their effects and their render functions.            *)
(*                                                                         *)
(* Coordinates are integers in units of 0.01 degree.  A JavaScript object  *)
(* used as a dictionary is a sequence of [key, val] entries in insertion   *)
(* order (the order Object.keys reports for non-numeric string keys).  A   *)
(* Date is [nan, t]: an Invalid Date has nan = TRUE and compares false     *)
(* with everything.                                                        *)
(***************************************************************************)
EXTENDS Integers, Sequences, FiniteSets, TLC

VARIABLES
    data,        \* the static document thistle_data.json: [places, events]
    mounted,     \* the effects of EventsComponent have run
    placesLoad,  \* the places fetch: "idle", "pending", "done", "failed", "threw"
    eventsLoad,  \* the events fetch: "idle", "pending", "done", "failed"
    places,      \* state cell places (venue index)
    events,      \* state cell events (occurrences grouped by venue id)
    centre,      \* state cell centre
    sdate,       \* state cell sdate of App
    edate,       \* state cell edate of App
    bus,         \* state cell bus of App (the detail slot)
    reqs,        \* the fetchh calls made so far, in order: [id, st]
    lastDone,    \* index in reqs of the fetchh whose setBus ran last (0: none)
    markers,     \* what EventsComponent rendered last (null children dropped)
    stops,       \* what VehicleComponent rendered last
    crashed,     \* a render threw: React unmounted the tree
    pressed,     \* a Details button has been pressed
    fIn,         \* argument of a stand-alone validEvent call
    fOut,        \* its result
    fDone        \* the stand-alone call has returned

vars == <<data, mounted, placesLoad, eventsLoad, places, events, centre, sdate,
          edate, bus, reqs, lastDone, markers, stops, crashed, pressed, fIn, fOut,
          fDone>>

---------------------------------------------------------------------------
(* Bounds *)

\* the date pickers offer the instants 1..MaxT
MaxT == 3
\* at most MaxReq fetchh calls are made (the mount effect's included)
MaxReq == 2
\* a stand-alone validEvent call gets at most MaxOcc occurrences
MaxOcc == 3
\* a places array of a build on its own has at most MaxPlaces records
MaxPlaces == 2
\* the events of a build on its own have at most MaxEntries schedule entries
MaxEntries == 3

---------------------------------------------------------------------------
(* JavaScript values *)

Instants == 1..MaxT

DateAt(n) == [nan |-> FALSE, t |-> n]

InvalidDate == [nan |-> TRUE, t |-> 0]

\* new Date(ts) for the timestamp strings of the data; any other string is
\* no date and gives an Invalid Date
NewDate(ts) ==
    CASE ts = "2024-08-01T10:00:00Z" -> DateAt(1)
      [] ts = "2024-08-05T10:00:00Z" -> DateAt(2)
      [] ts = "2024-09-01T10:00:00Z" -> DateAt(3)
      [] OTHER -> InvalidDate

\* a >= b and a <= b on two Dates (both compare their time values; NaN
\* compares false)
DateGE(a, b) == ~a.nan /\ ~b.nan /\ a.t >= b.t

DateLE(a, b) == ~a.nan /\ ~b.nan /\ a.t <= b.t

\* Math.abs
Abs(x) == IF x < 0 THEN -x ELSE x

\* dictionaries: obj[k] !== undefined, obj[k], obj[k] = v, Object.keys(obj)
Has(d, k) == \E i \in 1..Len(d) : d[i].key = k

Get(d, k) == d[CHOOSE i \in 1..Len(d) : d[i].key = k].val

\* an assignment that always adds an entry, as a push onto an array of
\* [key, val] pairs would
PutAppending(d, k, v) == Append(d, [key |-> k, val |-> v])

Put(d, k, v) ==
    IF Has(d, k)
    THEN [i \in 1..Len(d) |-> IF d[i].key = k THEN [key |-> k, val |-> v] ELSE d[i]]
    ELSE Append(d, [key |-> k, val |-> v])

Keys(d) == [i \in 1..Len(d) |-> d[i].key]

\* useState([]): the empty array the cells places, events and bus start as
EmptyArray == <<>>

---------------------------------------------------------------------------
(* The data: thistle_data.json and the detail endpoint *)

RawPlace(id, name, lat, lon) ==
    [place_id |-> id, name |-> name, address |-> "1 High St",
     loc |-> [present |-> TRUE, latitude |-> lat, longitude |-> lon],
     tags |-> "venue", town |-> "Edinburgh"]

\* a venue record with no loc object
RawPlaceNoLoc(id, name) ==
    [place_id |-> id, name |-> name, address |-> "1 High St",
     loc |-> [present |-> FALSE, latitude |-> 0, longitude |-> 0],
     tags |-> "venue", town |-> "Edinburgh"]

RawSchedule(pid, ts) ==
    [place_id |-> pid, start_ts |-> ts, end_ts |-> ts, performances |-> 1,
     place |-> pid]

RawEvent(id, name, schedules) ==
    [event_id |-> id, name |-> name, status |-> "active", schedules |-> schedules]

Aug1 == "2024-08-01T10:00:00Z"

Aug5 == "2024-08-05T10:00:00Z"

Sep1 == "2024-09-01T10:00:00Z"

NoDate == "tbc"

\* the places arrays the model loads: none, one venue, two venues, two records
\* with one place_id, a record without loc after a well-formed one
PlaceSnapshots ==
    { <<>>,
      <<RawPlace("v1", "Hall", 5590, -320)>>,
      <<RawPlace("v1", "Hall", 5590, -320), RawPlace("v2", "Tent", 5600, -300)>>,
      <<RawPlace("v1", "Hall", 5590, -320), RawPlace("v1", "Annex", 5600, -300)>>,
      <<RawPlace("v1", "Hall", 5590, -320), RawPlaceNoLoc("v2", "Tent")>> }

\* the events arrays the model loads: none; one event at v1; two events at
\* v1; an event at a venue id no place has, among others; events with several
\* schedule entries, one of them with no parsable start
EventSnapshots ==
    { <<>>,
      <<RawEvent(1, "Ceilidh", <<RawSchedule("v1", Aug1)>>)>>,
      <<RawEvent(1, "Ceilidh", <<RawSchedule("v1", Aug1)>>),
        RawEvent(2, "Pipers", <<RawSchedule("v1", Aug5)>>)>>,
      <<RawEvent(1, "Ceilidh", <<RawSchedule("v1", Aug1)>>),
        RawEvent(2, "Pipers", <<RawSchedule("v_missing", Aug1),
                                RawSchedule("v2", Aug5)>>)>>,
      <<RawEvent(1, "Ceilidh", <<RawSchedule("v2", Aug5), RawSchedule("v1", Aug1),
                                 RawSchedule("v1", Sep1)>>),
        RawEvent(2, "Pipers", <<RawSchedule("v2", NoDate),
                                RawSchedule("v1", Aug5)>>)>> }

ThistleData == [places : PlaceSnapshots, events : EventSnapshots]

\* the centres the map widget reports: on venue v1, and the map's opening
\* centre [55.89, -3.72]
CentreReports ==
    { [kind |-> "LatLng", lat |-> 5590, lng |-> -320],
      [kind |-> "LatLng", lat |-> 5589, lng |-> -372] }

\* useState([55.95, -3.18]): an array, with no lat and no lng
InitialCentre == [kind |-> "array", lat |-> 5595, lng |-> -318]

EventIds == {1, 2}

Stop(name, lat, lon) ==
    [stop_name |-> name, latitude |-> lat, longitude |-> lon]

\* what http://localhost:8000/event/<id> answers: event 1 has two nearby
\* stops, every other event a detail object with no nearby_stops field
DetailOf(id) ==
    IF id = 1
    THEN [kind |-> "object", event_id |-> id, has_nearby_stops |-> TRUE,
          nearby_stops |-> <<Stop("Haymarket", 5594, -321), Stop("Waverley", 5595, -319)>>]
    ELSE [kind |-> "object", event_id |-> id, has_nearby_stops |-> FALSE,
          nearby_stops |-> <<>>]

\* useState([]) of bus
EmptyBus ==
    [kind |-> "array", event_id |-> 0, has_nearby_stops |-> FALSE,
     nearby_stops |-> <<>>]

---------------------------------------------------------------------------
(* EventsComponent: the two builds *)

\* the callback of data.places.map: reading place.loc.latitude of a record
\* with no loc throws a TypeError
PlaceInfoThrows(rawPlaces) ==
    \E i \in 1..Len(rawPlaces) : ~rawPlaces[i].loc.present

PlaceInfo(place) ==
    [address |-> place.address, name |-> place.name, id |-> place.place_id,
     lat |-> place.loc.latitude, lon |-> place.loc.longitude,
     tags |-> place.tags, town |-> place.town]

RECURSIVE PlacesDict(_, _)
\* info.forEach((el) => dict[el.id] = el), from entry i on
PlacesDict(info, i) ==
    IF i = 0 THEN EmptyArray
    ELSE Put(PlacesDict(info, i - 1), info[i].id, info[i])

\* the places the .then callback hands to setPlaces
BuildPlaces(rawPlaces) ==
    PlacesDict([i \in 1..Len(rawPlaces) |-> PlaceInfo(rawPlaces[i])], Len(rawPlaces))

filterr(event, place) ==
    [event_id |-> event.event_id, name |-> event.name, status |-> event.status,
     start_ts |-> place.start_ts, end_ts |-> place.end_ts,
     performances |-> place.performances, place |-> place.place]

RECURSIVE SchedulesIntoOverwriting(_, _, _)
\* the loop with the two branches alike: an entry replaces the group of its
\* place_id
SchedulesIntoOverwriting(dict, el, j) ==
    IF j = 0 THEN dict
    ELSE LET d == SchedulesIntoOverwriting(dict, el, j - 1)
             place == el.schedules[j]
         IN  Put(d, place.place_id, <<filterr(el, place)>>)

RECURSIVE SchedulesInto(_, _, _)
\* el.schedules.forEach(...) on dict, for the first j schedule entries of el
SchedulesInto(dict, el, j) ==
    IF j = 0 THEN dict
    ELSE LET d == SchedulesInto(dict, el, j - 1)
             place == el.schedules[j]
         IN  IF Has(d, place.place_id)
             THEN Put(d, place.place_id,
                      Append(Get(d, place.place_id), filterr(el, place)))
             ELSE Put(d, place.place_id, <<filterr(el, place)>>)

RECURSIVE EventsDict(_, _)
\* info.forEach(...), for the first i events
EventsDict(info, i) ==
    IF i = 0 THEN EmptyArray
    ELSE SchedulesInto(EventsDict(info, i - 1), info[i], Len(info[i].schedules))

\* the dict the .then callback hands to setEvents
BuildEvents(rawEvents) == EventsDict(rawEvents, Len(rawEvents))

---------------------------------------------------------------------------
(* EventsComponent: validEvent and the render *)

\* the test with || for &&
InRangeEither(ev, s, e) ==
    LET start == NewDate(ev.start_ts)
    IN  DateGE(start, s) \/ DateLE(start, e)

\* the test with the end excluded: start >= sdate && start < edate
InRangeHalfOpen(ev, s, e) ==
    LET start == NewDate(ev.start_ts)
    IN  DateGE(start, s) /\ DateLE(start, e) /\ start.t # e.t

\* the test of validEvent on one occurrence
InRange(ev, s, e) ==
    LET start == NewDate(ev.start_ts)
    IN  DateGE(start, s) /\ DateLE(start, e)

RECURSIVE ValidatedUpTo(_, _, _, _)
\* validated after the forEach has visited the first i occurrences
ValidatedUpTo(event, s, e, i) ==
    IF i = 0 THEN <<>>
    ELSE LET validated == ValidatedUpTo(event, s, e, i - 1)
         IN  IF InRange(event[i], s, e)
             THEN Append(validated, event[i])
             ELSE validated

\* validEvent(event), with the sdate and edate of the render it runs in
validEvent(event, s, e) == ValidatedUpTo(event, s, e, Len(event))

latd == 1

lond == 3

\* Math.abs(temp.lat-centre.lat) <= latd && Math.abs(temp.lon-centre.lng) <= lond:
\* the lat and lng of an array are undefined, the differences NaN, the test false
Near(temp, c) ==
    /\ c.kind = "LatLng"
    /\ Abs(temp.lat - c.lat) <= latd
    /\ Abs(temp.lon - c.lng) <= lond

\* the gate without its "|| true"
ProximityGateNearOnly(temp, c) == Near(temp, c)

\* the condition of the inner if
ProximityGate(temp, c) == Near(temp, c) \/ TRUE

\* the render without its test of places[index]
PlaceKnownUnchecked(p, index) == TRUE

\* places[index] !== undefined
PlaceKnown(p, index) == Has(p, index)

\* the render without its test of validEvents.length, as before validEvent
\* was added
HasValidUnchecked(validEvents) == TRUE

\* validEvents.length > 0
HasValid(validEvents) == Len(validEvents) > 0

Null == [type |-> "null"]

Threw == [type |-> "threw"]

\* the callback of Object.keys(events).map for the key index: a Marker, null,
\* or a TypeError when temp is undefined and temp.lat is read
RenderChild(p, e, c, s, d, index) ==
    LET event == Get(e, index)
    IN  IF PlaceKnown(p, index)
        THEN IF ~Has(p, index) THEN Threw
             ELSE LET temp == Get(p, index)
                  IN  IF ProximityGate(temp, c)
                      THEN LET validEvents == validEvent(event, s, d)
                           IN  IF HasValid(validEvents)
                               THEN [type |-> "Marker", key |-> index,
                                     position |-> <<temp.lat, temp.lon>>,
                                     total |-> Len(validEvents),
                                     event |-> validEvents, place |-> temp]
                               ELSE Null
                      ELSE Null
        ELSE Null

\* the children EventsComponent returns
EventsChildren(p, e, c, s, d) ==
    [n \in 1..Len(e) |-> RenderChild(p, e, c, s, d, Keys(e)[n])]

\* the children React puts on the map: null renders nothing
Emitted(children) == SelectSeq(children, LAMBDA ch : ch.type = "Marker")

RenderThrows(children) == \E n \in 1..Len(children) : children[n].type = "threw"

\* VehicleComponent({bus}): one stop Marker per entry of bus.nearby_stops, or null
VehicleComponent(b) ==
    IF b.has_nearby_stops
    THEN [index \in 1..Len(b.nearby_stops) |->
            [type |-> "Marker", key |-> index - 1,
             position |-> <<b.nearby_stops[index].latitude,
                            b.nearby_stops[index].longitude>>,
             st |-> b.nearby_stops[index]]]
    ELSE <<>>

\* a VehicleComponent that calls bus.nearby_stops.map without its if: map of
\* undefined throws
VehicleThrowsUnguarded(b) == ~b.has_nearby_stops

\* reading bus.nearby_stops of null or undefined throws
VehicleThrows(b) == b.kind \notin {"array", "object"}

---------------------------------------------------------------------------
(* The state machine *)

\* a render that reads the dates of the render before it (a stale closure)
RenderStaleDates(p, e, c, s, d, b) ==
    LET children == EventsChildren(p, e, c, sdate, edate)
        threw == RenderThrows(children) \/ VehicleThrows(b)
    IN  /\ crashed' = threw
        /\ markers' = IF threw THEN <<>> ELSE Emitted(children)
        /\ stops' = IF threw THEN <<>> ELSE VehicleComponent(b)

\* React renders App after a state cell was set: EventsComponent and
\* VehicleComponent run with the cells' new values; a render that throws
\* unmounts the tree
Render(p, e, c, s, d, b) ==
    LET children == EventsChildren(p, e, c, s, d)
        threw == RenderThrows(children) \/ VehicleThrows(b)
    IN  /\ crashed' = threw
        /\ markers' = IF threw THEN <<>> ELSE Emitted(children)
        /\ stops' = IF threw THEN <<>> ELSE VehicleComponent(b)

\* the first render of App: nothing is fetched yet
Init ==
    /\ data \in ThistleData
    /\ mounted = FALSE
    /\ placesLoad = "idle"
    /\ eventsLoad = "idle"
    /\ places = EmptyArray
    /\ events = EmptyArray
    /\ centre = InitialCentre
    /\ \E now \in Instants : sdate = DateAt(now) /\ edate = DateAt(now)
    /\ bus = EmptyBus
    /\ reqs = <<>>
    /\ lastDone = 0
    /\ markers = <<>>
    /\ stops = <<>>
    /\ crashed = FALSE
    /\ pressed = FALSE
    /\ fIn = <<>>
    /\ fOut = <<>>
    /\ fDone = FALSE

\* fetchh(id, setBus): the request is sent
fetchh(id) == reqs' = Append(reqs, [id |-> id, st |-> "pending"])

\* the three effects of EventsComponent, run once after the first render
Mount ==
    /\ ~mounted
    /\ mounted' = TRUE
    /\ fetchh(1)
    /\ placesLoad' = "pending"
    /\ eventsLoad' = "pending"
    /\ UNCHANGED <<data, places, events, centre, sdate, edate, bus, lastDone,
                   markers, stops, crashed, fIn, fOut, fDone,
                   pressed>>

\* a places callback whose result the markers do not follow: they stay those
\* of the render before it
PlacesFetchedUnrendered ==
    /\ mounted /\ ~crashed
    /\ placesLoad = "pending"
    /\ IF PlaceInfoThrows(data.places)
       THEN /\ placesLoad' = "threw"
            /\ UNCHANGED places
       ELSE /\ placesLoad' = "done"
            /\ places' = BuildPlaces(data.places)
    /\ UNCHANGED <<data, mounted, eventsLoad, events, centre, sdate, edate, bus,
                   reqs, lastDone, markers, stops, crashed, pressed, fIn, fOut,
                   fDone>>

\* the places fetch answers: the .then callback builds the dict and sets
\* places, or throws on a record with no loc and sets nothing
PlacesFetched ==
    /\ mounted /\ ~crashed
    /\ placesLoad = "pending"
    /\ IF PlaceInfoThrows(data.places)
       THEN /\ placesLoad' = "threw"
            /\ UNCHANGED <<places, markers, stops, crashed>>
       ELSE /\ placesLoad' = "done"
            /\ places' = BuildPlaces(data.places)
            /\ Render(places', events, centre, sdate, edate, bus)
    /\ UNCHANGED <<data, mounted, eventsLoad, events, centre, sdate, edate, bus,
                   reqs, lastDone, fIn, fOut, fDone,
                   pressed>>

\* the places fetch fails (network error, or a body that is no JSON): the
\* promise rejects and no callback runs
PlacesFetchFailed ==
    /\ mounted /\ ~crashed
    /\ placesLoad = "pending"
    /\ placesLoad' = "failed"
    /\ UNCHANGED <<data, mounted, eventsLoad, places, events, centre, sdate, edate,
                   bus, reqs, lastDone, markers, stops, crashed, fIn, fOut, fDone,
                   pressed>>

\* the events fetch answers: the .then callback groups the occurrences and
\* sets events
EventsFetched ==
    /\ mounted /\ ~crashed
    /\ eventsLoad = "pending"
    /\ eventsLoad' = "done"
    /\ events' = BuildEvents(data.events)
    /\ Render(places, events', centre, sdate, edate, bus)
    /\ UNCHANGED <<data, mounted, placesLoad, places, centre, sdate, edate, bus,
                   reqs, lastDone, fIn, fOut, fDone,
                   pressed>>

EventsFetchFailed ==
    /\ mounted /\ ~crashed
    /\ eventsLoad = "pending"
    /\ eventsLoad' = "failed"
    /\ UNCHANGED <<data, mounted, placesLoad, places, events, centre, sdate, edate,
                   bus, reqs, lastDone, markers, stops, crashed, fIn, fOut, fDone,
                   pressed>>

\* an onChange that also empties the detail slot
SetsDateClearingBus(t) ==
    /\ mounted /\ ~crashed
    /\ sdate' = DateAt(t)
    /\ bus' = EmptyBus
    /\ Render(places, events, centre, sdate', edate, bus')
    /\ UNCHANGED <<data, mounted, placesLoad, eventsLoad, places, events, centre,
                   edate, reqs, lastDone, pressed, fIn, fOut, fDone>>

\* onChange of the first DatePicker
SetsDate(t) ==
    /\ mounted /\ ~crashed
    /\ sdate' = DateAt(t)
    /\ Render(places, events, centre, sdate', edate, bus)
    /\ UNCHANGED <<data, mounted, placesLoad, eventsLoad, places, events, centre,
                   edate, bus, reqs, lastDone, fIn, fOut, fDone,
                   pressed>>

\* an onChange that also filters the lists of events in place
SeteDateFiltering(t) ==
    /\ mounted /\ ~crashed
    /\ edate' = DateAt(t)
    /\ events' = [i \in 1..Len(events) |->
                     [key |-> events[i].key,
                      val |-> validEvent(events[i].val, sdate, edate')]]
    /\ Render(places, events', centre, sdate, edate', bus)
    /\ UNCHANGED <<data, mounted, placesLoad, eventsLoad, places, centre, sdate,
                   bus, reqs, lastDone, pressed, fIn, fOut, fDone>>

\* onChange of the second DatePicker
SeteDate(t) ==
    /\ mounted /\ ~crashed
    /\ edate' = DateAt(t)
    /\ Render(places, events, centre, sdate, edate', bus)
    /\ UNCHANGED <<data, mounted, placesLoad, eventsLoad, places, events, centre,
                   sdate, bus, reqs, lastDone, fIn, fOut, fDone,
                   pressed>>

\* the zoomend handler; c is e.target.getCenter()
ZoomEnd(c) ==
    /\ mounted /\ ~crashed
    /\ centre' = c
    /\ Render(places, events, centre', sdate, edate, bus)
    /\ UNCHANGED <<data, mounted, placesLoad, eventsLoad, places, events, sdate,
                   edate, bus, reqs, lastDone, fIn, fOut, fDone,
                   pressed>>

\* the moveend handler
MoveEnd(c) ==
    /\ mounted /\ ~crashed
    /\ centre' = c
    /\ Render(places, events, centre', sdate, edate, bus)
    /\ UNCHANGED <<data, mounted, placesLoad, eventsLoad, places, events, sdate,
                   edate, bus, reqs, lastDone, fIn, fOut, fDone,
                   pressed>>

\* the ids of the occurrences a popup lists: each has a Details button
ListedIds ==
    UNION { { markers[n].event[k].event_id : k \in 1..Len(markers[n].event) } :
            n \in 1..Len(markers) }

\* onClick of the Details button of a listed occurrence of event id
Details(id) ==
    /\ mounted /\ ~crashed
    /\ Len(reqs) < MaxReq
    /\ id \in ListedIds
    /\ fetchh(id)
    /\ pressed' = TRUE
    /\ UNCHANGED <<data, mounted, placesLoad, eventsLoad, places, events, centre,
                   sdate, edate, bus, lastDone, markers, stops, crashed, fIn, fOut,
                   fDone>>

\* a setBus that merges the new object into the old one: the old
\* nearby_stops stay when the new object has none
SetBusMerged(old, new) ==
    IF new.has_nearby_stops THEN new
    ELSE [new EXCEPT !.has_nearby_stops = old.has_nearby_stops,
                     !.nearby_stops = old.nearby_stops]

\* what setBus(data) stores
SetBus(old, new) == new

\* an answer that is applied only when no later request was made (a request
\* generation guard)
DetailFetchedLatestOnly(n) ==
    /\ mounted /\ ~crashed
    /\ n \in 1..Len(reqs)
    /\ reqs[n].st = "pending"
    /\ reqs' = [reqs EXCEPT ![n].st = "done"]
    /\ lastDone' = IF n = Len(reqs) THEN n ELSE lastDone
    /\ bus' = IF n = Len(reqs) THEN SetBus(bus, DetailOf(reqs[n].id)) ELSE bus
    /\ Render(places, events, centre, sdate, edate, bus')
    /\ UNCHANGED <<data, mounted, placesLoad, eventsLoad, places, events, centre,
                   sdate, edate, pressed, fIn, fOut, fDone>>

\* request n answers: .then((data) => setBus(data))
DetailFetched(n) ==
    /\ mounted /\ ~crashed
    /\ n \in 1..Len(reqs)
    /\ reqs[n].st = "pending"
    /\ reqs' = [reqs EXCEPT ![n].st = "done"]
    /\ lastDone' = n
    /\ bus' = SetBus(bus, DetailOf(reqs[n].id))
    /\ Render(places, events, centre, sdate, edate, bus')
    /\ UNCHANGED <<data, mounted, placesLoad, eventsLoad, places, events, centre,
                   sdate, edate, fIn, fOut, fDone,
                   pressed>>

\* request n fails: the promise rejects, fetchh has no catch and setBus does
\* not run
DetailFetchFailed(n) ==
    /\ mounted /\ ~crashed
    /\ n \in 1..Len(reqs)
    /\ reqs[n].st = "pending"
    /\ reqs' = [reqs EXCEPT ![n].st = "failed"]
    /\ UNCHANGED <<data, mounted, placesLoad, eventsLoad, places, events, centre,
                   sdate, edate, bus, lastDone, markers, stops, crashed, fIn, fOut,
                   fDone,
                   pressed>>

Next ==
    \/ Mount
    \/ PlacesFetched
    \/ PlacesFetchFailed
    \/ EventsFetched
    \/ EventsFetchFailed
    \/ \E t \in Instants : SetsDate(t)
    \/ \E t \in Instants : SeteDate(t)
    \/ \E c \in CentreReports : ZoomEnd(c)
    \/ \E c \in CentreReports : MoveEnd(c)
    \/ \E id \in EventIds : Details(id)
    \/ \E n \in 1..MaxReq : DetailFetched(n)
    \/ \E n \in 1..MaxReq : DetailFetchFailed(n)

Spec == Init /\ [][Next]_vars

\* every request sent is answered or fails in the end: a fetch promise settles
Settles == \A n \in 1..MaxReq : WF_vars(DetailFetched(n) \/ DetailFetchFailed(n))

\* the first render with one document: one venue, an event of id 1 and an
\* event of id 2 at it
InitLive ==
    /\ Init
    /\ data = [places |-> <<RawPlace("v1", "Hall", 5590, -320)>>,
               events |-> <<RawEvent(1, "Ceilidh", <<RawSchedule("v1", Aug1)>>),
                            RawEvent(2, "Pipers", <<RawSchedule("v1", Aug5)>>)>>]

SpecLive == InitLive /\ [][Next]_vars /\ Settles

---------------------------------------------------------------------------
(* validEvent on its own: one call on an arbitrary occurrence list *)

TsStrings == {Aug1, Aug5, Sep1, NoDate}

\* the occurrences filterr can build for the timestamps above
FilterOccs ==
    { filterr(RawEvent(id, "Ceilidh", <<>>), RawSchedule("v1", ts)) :
        id \in EventIds, ts \in TsStrings }

OccLists == UNION { [1..n -> FilterOccs] : n \in 0..MaxOcc }

\* the date pickers' instants and one instant on either side
FilterInstants == 0..(MaxT + 1)

InitFilter ==
    /\ data = [places |-> <<>>, events |-> <<>>]
    /\ mounted = FALSE
    /\ placesLoad = "idle"
    /\ eventsLoad = "idle"
    /\ places = EmptyArray
    /\ events = EmptyArray
    /\ centre = InitialCentre
    /\ sdate \in {DateAt(t) : t \in FilterInstants}
    /\ edate \in {DateAt(t) : t \in FilterInstants}
    /\ bus = EmptyBus
    /\ reqs = <<>>
    /\ lastDone = 0
    /\ markers = <<>>
    /\ stops = <<>>
    /\ crashed = FALSE
    /\ pressed = FALSE
    /\ fIn \in OccLists
    /\ fOut = <<>>
    /\ fDone = FALSE

\* validEvent(fIn) runs and returns
CallValidEvent ==
    /\ ~fDone
    /\ fOut' = validEvent(fIn, sdate, edate)
    /\ fDone' = TRUE
    /\ UNCHANGED <<data, mounted, placesLoad, eventsLoad, places, events, centre,
                   sdate, edate, bus, reqs, lastDone, markers, stops, crashed, fIn,
                   pressed>>

NextFilter == CallValidEvent

SpecFilter == InitFilter /\ [][NextFilter]_vars

---------------------------------------------------------------------------
(* The two builds on their own: the mount and the two load completions, on
   arbitrary small documents *)

\* a venue record of each of two names and places, for each of two ids
BuildPlaces2 ==
    { RawPlace(id, "Hall", 5590, -320) : id \in {"v1", "v2"} }
    \cup { RawPlace(id, "Annex", 5600, -300) : id \in {"v1", "v2"} }

\* a schedule entry whose end, performances and place differ from its start
\* and place_id
ScheduleEntry(pid, start, end, perf) ==
    [place_id |-> pid, start_ts |-> start, end_ts |-> end, performances |-> perf,
     place |-> [place_id |-> pid, town |-> "Edinburgh"]]

BuildEntries ==
    { ScheduleEntry(pid, Aug1, Aug5, 1) : pid \in {"v1", "v2", "v_missing"} }
    \cup { ScheduleEntry(pid, Aug5, Sep1, 2) : pid \in {"v1", "v2", "v_missing"} }

\* two events that share out a list of schedule entries: the first k to event
\* 1, the others to event 2
TwoEvents(entries, k) ==
    << [event_id |-> 1, name |-> "Ceilidh", status |-> "active",
        schedules |-> SubSeq(entries, 1, k)],
       [event_id |-> 2, name |-> "Pipers", status |-> "cancelled",
        schedules |-> SubSeq(entries, k + 1, Len(entries))] >>

RawPlaceLists == UNION { [1..n -> BuildPlaces2] : n \in 0..MaxPlaces }

RawEventLists ==
    UNION { { TwoEvents(entries, k) : k \in 0..Len(entries) } :
            entries \in UNION { [1..n -> BuildEntries] : n \in 0..MaxEntries } }

\* the documents: any places with one events array, or one places array with
\* any events
BuildData ==
    { [places |-> pl, events |-> TwoEvents(<<ScheduleEntry("v1", Aug1, Aug5, 1)>>, 1)] :
        pl \in RawPlaceLists }
    \cup { [places |-> <<RawPlace("v1", "Hall", 5590, -320)>>, events |-> ev] :
             ev \in RawEventLists }

InitBuild ==
    /\ data \in BuildData
    /\ mounted = FALSE
    /\ placesLoad = "idle"
    /\ eventsLoad = "idle"
    /\ places = EmptyArray
    /\ events = EmptyArray
    /\ centre = InitialCentre
    /\ sdate = DateAt(1)
    /\ edate = DateAt(MaxT)
    /\ bus = EmptyBus
    /\ reqs = <<>>
    /\ lastDone = 0
    /\ markers = <<>>
    /\ stops = <<>>
    /\ crashed = FALSE
    /\ pressed = FALSE
    /\ fIn = <<>>
    /\ fOut = <<>>
    /\ fDone = FALSE

NextBuild ==
    \/ Mount
    \/ PlacesFetched
    \/ EventsFetched

SpecBuild == InitBuild /\ [][NextBuild]_vars

---------------------------------------------------------------------------
(* Claims *)

\* the occurrence has a start instant, and it lies in [s, e], both ends included
StartsWithin(ev, s, e) ==
    /\ ~NewDate(ev.start_ts).nan
    /\ s.t <= NewDate(ev.start_ts).t
    /\ NewDate(ev.start_ts).t <= e.t

\* C1: validEvent returns exactly the occurrences whose start instant s has
\* sdate <= s <= edate, both bounds included, in their original order.
C1_ValidEventInclusive ==
    fDone => fOut = SelectSeq(fIn, LAMBDA ev : StartsWithin(ev, sdate, edate))

\* a call that kept an occurrence starting exactly at sdate and one starting
\* exactly at edate, and dropped another
C1_Witness ==
    /\ fDone
    /\ sdate.t < edate.t
    /\ Len(fOut) = 2
    /\ Len(fIn) = 3
    /\ NewDate(fOut[1].start_ts) = edate
    /\ NewDate(fOut[2].start_ts) = sdate

\* the occurrences of list that start within [s, e]
Within(list, s, e) == SelectSeq(list, LAMBDA ev : StartsWithin(ev, s, e))

\* C2: every emitted marker carries a non-empty list of occurrences that all
\* pass the current date range, and a venue whose occurrences are all filtered
\* out has no marker.
C2_MarkersNonEmpty ==
    /\ \A n \in 1..Len(markers) :
          /\ markers[n].event # <<>>
          /\ \A k \in 1..Len(markers[n].event) :
                StartsWithin(markers[n].event[k], sdate, edate)
    /\ \A i \in 1..Len(events) :
          Within(events[i].val, sdate, edate) = <<>>
             => \A n \in 1..Len(markers) : markers[n].key # events[i].key

\* a known venue has occurrences, none in range, and no marker, while another
\* venue has one
C2_Witness ==
    /\ markers # <<>>
    /\ \E i \in 1..Len(events) :
          /\ Has(places, events[i].key)
          /\ events[i].val # <<>>
          /\ Within(events[i].val, sdate, edate) = <<>>

\* the raw events without the schedule entries whose place_id no venue of p has
WithoutDangling(rawEvents, p) ==
    [i \in 1..Len(rawEvents) |->
        [rawEvents[i] EXCEPT
            !.schedules = SelectSeq(@, LAMBDA sc : Has(p, sc.place_id))]]

\* C3: an occurrence whose venue id has no entry in the venue index is in no
\* marker, rendering it reaches no error state, and the markers are those of
\* the data without that occurrence.
C3_DanglingExcluded ==
    /\ ~crashed
    /\ \A n \in 1..Len(markers) :
          /\ Has(places, markers[n].key)
          /\ \A k \in 1..Len(markers[n].event) :
                Has(places, markers[n].event[k].place)
    /\ eventsLoad = "done" =>
          markers = Emitted(EventsChildren(places,
                       BuildEvents(WithoutDangling(data.events, places)),
                       centre, sdate, edate))

\* both loads are done, an occurrence in range is at a venue id no place has,
\* and another venue has a marker
C3_Witness ==
    /\ placesLoad = "done"
    /\ eventsLoad = "done"
    /\ markers # <<>>
    /\ \E i \in 1..Len(events) :
          /\ ~Has(places, events[i].key)
          /\ Within(events[i].val, sdate, edate) # <<>>

\* C4: the detail slot holds the whole result of the request that answered
\* last, or the initial empty value if none has; so when the second of two
\* requests answers before the first, the slot ends with the first's result.
C4_LastCompletedWins ==
    bus = IF lastDone = 0 THEN EmptyBus ELSE DetailOf(reqs[lastDone].id)

\* two requests for different events, the second answered before the first
C4_Witness ==
    /\ Len(reqs) = 2
    /\ reqs[1].id # reqs[2].id
    /\ reqs[1].st = "done"
    /\ reqs[2].st = "done"
    /\ lastDone = 1
    /\ bus = DetailOf(reqs[1].id)

\* Recompute of the design: for every venue id of eventsByVenue that venues
\* has and whose occurrences in range are not none, the venue and those
\* occurrences
Recompute(venues, eventsByVenue, s, e) ==
    LET shown == SelectSeq(eventsByVenue,
                    LAMBDA g : Has(venues, g.key) /\ Within(g.val, s, e) # <<>>)
    IN  [n \in 1..Len(shown) |->
            [venue |-> Get(venues, shown[n].key),
             occurrences |-> Within(shown[n].val, s, e)]]

\* C5: after every change of places, events, sdate or edate the markers are
\* those Recompute gives for the current values of all four.
C5_MarkersCurrent ==
    [n \in 1..Len(markers) |->
        [venue |-> markers[n].place, occurrences |-> markers[n].event]]
      = Recompute(places, events, sdate, edate)

\* the dates were changed after both loads, and now one venue is shown and
\* another, known and with occurrences, is not
C5_Witness ==
    /\ sdate.t < edate.t
    /\ placesLoad = "done"
    /\ eventsLoad = "done"
    /\ Len(markers) = 1
    /\ \E i \in 1..Len(events) :
          /\ Has(places, events[i].key)
          /\ events[i].val # <<>>
          /\ Within(events[i].val, sdate, edate) = <<>>

\* C6 (as claimed): once the places load has been handled, every well-formed
\* venue record of the load is in the venue index.
C6_WellFormedKept ==
    placesLoad \in {"done", "threw"} =>
        \A i \in 1..Len(data.places) :
            data.places[i].loc.present => Has(places, data.places[i].place_id)

\* C7 (as claimed): after a failed detail request the detail slot holds the
\* empty value and the overlay shows no stop.
C7_FailureEmptiesSlot ==
    [][\A n \in 1..Len(reqs) :
          (reqs[n].st = "pending" /\ reqs'[n].st = "failed")
             => (bus' = EmptyBus /\ stops' = <<>> /\ ~crashed')]_vars

\* C8: when the places fetch or the events fetch has failed, no marker is
\* emitted, whatever the dates and the centre, and nothing has crashed.
C8_FailedLoadNoMarkers ==
    (placesLoad = "failed" \/ eventsLoad = "failed")
        => (markers = <<>> /\ ~crashed)

\* the places fetch failed, the events are loaded and one is in range
C8_Witness ==
    /\ placesLoad = "failed"
    /\ eventsLoad = "done"
    /\ \E i \in 1..Len(events) : Within(events[i].val, sdate, edate) # <<>>

\* C9: a start date after the end date is a state like any other, and in it
\* validEvent keeps nothing of any venue and no marker is emitted.
C9_EmptyRange ==
    sdate.t > edate.t =>
        /\ ~crashed
        /\ markers = <<>>
        /\ \A i \in 1..Len(events) : validEvent(events[i].val, sdate, edate) = <<>>

\* sdate is after edate, both loads are done and a known venue has an
\* occurrence with a start
C9_Witness ==
    /\ sdate.t > edate.t
    /\ placesLoad = "done"
    /\ eventsLoad = "done"
    /\ \E i \in 1..Len(events) :
          /\ Has(places, events[i].key)
          /\ \E k \in 1..Len(events[i].val) : ~NewDate(events[i].val[k].start_ts).nan

\* C10: a step that changes centre sets it to a centre the map reports and
\* changes nothing else, and the markers are the same for every centre.
C10_CentreIrrelevant ==
    /\ [](\A c \in CentreReports \cup {InitialCentre} :
             markers = Emitted(EventsChildren(places, events, c, sdate, edate)))
    /\ [][centre' # centre =>
             /\ centre' \in CentreReports
             /\ UNCHANGED <<data, mounted, placesLoad, eventsLoad, places, events,
                            sdate, edate, bus, reqs, lastDone, markers, stops,
                            crashed, pressed, fIn, fOut, fDone>>]_vars

\* a venue farther from the reported centre than latd, lond has a marker
C10_Witness ==
    /\ centre \in CentreReports
    /\ \E n \in 1..Len(markers) : ~Near(markers[n].place, centre)

RECURSIVE EntriesOf(_, _)
\* the schedule entries of the first i events, each with its event, in input
\* order
EntriesOf(rawEvents, i) ==
    IF i = 0 THEN <<>>
    ELSE EntriesOf(rawEvents, i - 1) \o
         [j \in 1..Len(rawEvents[i].schedules) |->
             [ev |-> rawEvents[i], sc |-> rawEvents[i].schedules[j]]]

\* the occurrence of a schedule entry of an event
OccurrenceOf(x) ==
    [event_id |-> x.ev.event_id, name |-> x.ev.name, status |-> x.ev.status,
     start_ts |-> x.sc.start_ts, end_ts |-> x.sc.end_ts,
     performances |-> x.sc.performances, place |-> x.sc.place]

\* the occurrences of the entries at venue id pid, in input order
GroupOf(rawEvents, pid) ==
    LET at == SelectSeq(EntriesOf(rawEvents, Len(rawEvents)),
                        LAMBDA x : x.sc.place_id = pid)
    IN  [n \in 1..Len(at) |-> OccurrenceOf(at[n])]

\* C11: the event index holds one occurrence per schedule entry, made of the
\* event's id, name and status and the entry's start, end, performances and
\* place; each is in the one group keyed by its entry's place_id, in input
\* order, and a group stays whether or not a venue has its id.
C11_EventIndexGroups ==
    eventsLoad = "done" =>
        LET all == EntriesOf(data.events, Len(data.events))
        IN  /\ \A g \in 1..Len(events) :
                  /\ events[g].val = GroupOf(data.events, events[g].key)
                  /\ events[g].val # <<>>
                  /\ \A h \in 1..Len(events) : events[h].key = events[g].key => h = g
            /\ \A n \in 1..Len(all) : Has(events, all[n].sc.place_id)

\* the venues are loaded; a group holds occurrences of both events, an event
\* has entries at two venue ids, and a group is at an id no venue has
C11_Witness ==
    /\ placesLoad = "done"
    /\ eventsLoad = "done"
    /\ Len(data.events[1].schedules) = 2
    /\ data.events[1].schedules[1].place_id # data.events[1].schedules[2].place_id
    /\ \E g \in 1..Len(events) :
          /\ Len(events[g].val) = 2
          /\ events[g].val[1].event_id # events[g].val[2].event_id
    /\ \E g \in 1..Len(events) : ~Has(places, events[g].key)

\* the last record of rawPlaces with place_id pid
LastWithId(rawPlaces, pid) ==
    rawPlaces[CHOOSE j \in 1..Len(rawPlaces) :
                /\ rawPlaces[j].place_id = pid
                /\ \A k \in (j + 1)..Len(rawPlaces) : rawPlaces[k].place_id # pid]

\* C12 (as claimed): once the places load has been handled, every venue
\* record that has what an entry is made of has an entry under its place_id,
\* the index has one entry per id, and the entry of an id has the attributes
\* of the last record with that id.
C12_VenueIndexLastWins ==
    placesLoad \in {"done", "threw"} =>
        /\ \A g, h \in 1..Len(places) : places[g].key = places[h].key => g = h
        /\ \A i \in 1..Len(data.places) :
              LET pid == data.places[i].place_id
                  last == LastWithId(data.places, pid)
              IN  data.places[i].loc.present =>
                    /\ Has(places, pid)
                    /\ last.loc.present =>
                          Get(places, pid) =
                             [address |-> last.address, name |-> last.name,
                              id |-> pid, lat |-> last.loc.latitude,
                              lon |-> last.loc.longitude, tags |-> last.tags,
                              town |-> last.town]

\* C13: once a load completion has set places, no step changes places, and
\* once one has set events, no step changes events.
C13_IndexesFrozen ==
    [][/\ placesLoad = "done" => places' = places
       /\ eventsLoad = "done" => events' = events]_vars

\* both indexes are set and hold what the builds gave, after date changes, a
\* viewport change, a Details press, an answered request and a render with a
\* marker
C13_Witness ==
    /\ placesLoad = "done"
    /\ eventsLoad = "done"
    /\ places = BuildPlaces(data.places)
    /\ events = BuildEvents(data.events)
    /\ sdate.t < edate.t
    /\ centre \in CentreReports
    /\ pressed
    /\ lastDone > 0
    /\ markers # <<>>

\* C14 (as claimed): while no Details button has been pressed, no detail
\* request is in flight and the detail slot holds its initial empty value.
C14_OnlyUserRequests ==
    ~pressed =>
        /\ \A n \in 1..Len(reqs) : reqs[n].st # "pending"
        /\ bus = EmptyBus

\* C15: a step that initiates or completes a detail request leaves places,
\* events, the dates, centre and the markers as they are, and a date change, a
\* viewport change or a load completion leaves the detail slot as it is.
C15_SideChannelApart ==
    [][/\ (reqs' # reqs \/ bus' # bus) =>
             UNCHANGED <<places, events, sdate, edate, centre, markers>>
       /\ \/ sdate' # sdate
          \/ edate' # edate
          \/ centre' # centre
          \/ places' # places
          \/ events' # events
          \/ (placesLoad = "pending" /\ placesLoad' # "pending")
          \/ (eventsLoad = "pending" /\ eventsLoad' # "pending")
          => bus' = bus]_vars

\* a detail is in the slot and another request is in flight, with markers
\* shown, after both loads, date changes and a viewport change
C15_Witness ==
    /\ bus.kind = "object"
    /\ \E n \in 1..Len(reqs) : reqs[n].st = "pending"
    /\ markers # <<>>
    /\ placesLoad = "done"
    /\ eventsLoad = "done"
    /\ sdate.t < edate.t
    /\ centre \in CentreReports

\* C16: a request in flight stays in flight until its own fetch answers or
\* fails, whatever is requested or answered meanwhile, and when it answers it
\* writes its own result into the detail slot.
C16_NoCancellation ==
    /\ \A n \in 1..MaxReq :
          [](n <= Len(reqs) /\ reqs[n].st = "pending"
                => <>(n <= Len(reqs) /\ reqs[n].st \in {"done", "failed"}))
    /\ [][\A n \in 1..Len(reqs) :
             /\ reqs[n].st = "pending" => reqs'[n].st \in {"pending", "done", "failed"}
             /\ (reqs[n].st = "pending" /\ reqs'[n].st = "done")
                   => bus' = DetailOf(reqs[n].id)]_vars

\* the first request has written its result while a later one is in flight
C16_Witness ==
    /\ Len(reqs) = 2
    /\ reqs[1].st = "done"
    /\ reqs[2].st = "pending"
    /\ reqs[1].id # reqs[2].id
    /\ bus = DetailOf(reqs[1].id)

\* C18: while the places load or the events load has not completed no marker
\* is emitted and nothing has crashed, and once both have, the markers are
\* those of the document and the current dates, whichever load came first.
C18_LoadsInEitherOrder ==
    /\ ~crashed
    /\ (placesLoad # "done" \/ eventsLoad # "done") => markers = <<>>
    /\ (placesLoad = "done" /\ eventsLoad = "done") =>
          [n \in 1..Len(markers) |->
              [venue |-> markers[n].place, occurrences |-> markers[n].event]]
            = Recompute(BuildPlaces(data.places), BuildEvents(data.events),
                        sdate, edate)

\* the events came first: they are loaded, one of a venue of the document is
\* in range, and the places are still awaited
C18_Witness ==
    /\ eventsLoad = "done"
    /\ placesLoad = "pending"
    /\ \E i \in 1..Len(events) :
          /\ Within(events[i].val, sdate, edate) # <<>>
          /\ \E j \in 1..Len(data.places) : data.places[j].place_id = events[i].key

\* C19: no two markers have one venue id; a marker's key is its venue's id and
\* its position that venue's coordinates in the venue index.
C19_OneMarkerPerVenue ==
    /\ \A n, m \in 1..Len(markers) : markers[n].key = markers[m].key => n = m
    /\ \A n \in 1..Len(markers) :
          /\ Has(places, markers[n].key)
          /\ markers[n].key = Get(places, markers[n].key).id
          /\ markers[n].position = <<Get(places, markers[n].key).lat,
                                     Get(places, markers[n].key).lon>>

\* the document has two records of one venue id, and that venue's marker lists
\* several occurrences, at the coordinates of the second record
C19_Witness ==
    /\ Len(data.places) = 2
    /\ data.places[1].place_id = data.places[2].place_id
    /\ \E n \in 1..Len(markers) :
          /\ markers[n].key = data.places[2].place_id
          /\ Len(markers[n].event) > 1
          /\ markers[n].position = <<data.places[2].loc.latitude,
                                     data.places[2].loc.longitude>>
          /\ markers[n].position # <<data.places[1].loc.latitude,
                                     data.places[1].loc.longitude>>

\* C20: the overlay shows one stop marker per entry of the slot's
\* nearby_stops, at that entry's coordinates, and none, with no error, when
\* the slot is the initial empty value or an object with no nearby_stops.
C20_OverlayFollowsSlot ==
    /\ ~crashed
    /\ bus.has_nearby_stops =>
          /\ Len(stops) = Len(bus.nearby_stops)
          /\ \A i \in 1..Len(stops) :
                /\ stops[i].position = <<bus.nearby_stops[i].latitude,
                                         bus.nearby_stops[i].longitude>>
                /\ stops[i].st = bus.nearby_stops[i]
    /\ (bus = EmptyBus \/ ~bus.has_nearby_stops) => stops = <<>>

\* the slot held a detail with stops and now holds one with no nearby_stops:
\* the overlay shows nothing
C20_Witness ==
    /\ Len(reqs) = 2
    /\ reqs[1].st = "done"
    /\ DetailOf(reqs[1].id).has_nearby_stops
    /\ lastDone = 2
    /\ bus.kind = "object"
    /\ ~bus.has_nearby_stops
    /\ stops = <<>>

====
